---- MODULE Spec2Model ----
(***************************************************************************)
(* Model of the library backend: the session token authority               *)
(* (account/tokens.py), the account mutations (account/views.py), the user *)
(* manager (account/models.py) and the book and genre operations behind    *)
(* the authorization gate (books/views.py, genre/views.py).                *)
(*                                                                         *)
(* Every GraphQL operation is one atomic action (synchronous, request      *)
(* scoped execution).  The record req describes the last request: its      *)
(* inputs, what verify_header answered, the stored state before the        *)
(* request (pre), right after verify_header returned or raised (mid), and  *)
(* the response.                                                           *)
(***************************************************************************)
EXTENDS Integers, Sequences, FiniteSets, TLC

VARIABLES users, origin, session, patrons, authors, lib, clock, expired, req,
          inflight

vars == <<users, origin, session, patrons, authors, lib, clock, expired, req,
          inflight>>

---------------------------------------------------------------------------
(* Bounds of the model.  The clock counts ticks; the sets of e-mail        *)
(* addresses and usernames below admit at most MaxUsers identities.        *)
MaxUsers == 2
MaxClock == 1
TicksPerSecond == 1

(* Program constants *)
ExpirySeconds == 10
PASSWORD_RESET_TIMEOUT == 259200

Clients == {"c1"}
Salts == {"s1"}
Passwords == {"p1", "p2"}
NewPasswords == {"p1"}
Usernames == {"u1", "u2"}
EmptyEmail == <<"", "">>
Emails == {<<"a", "x.com">>, <<"b", "X.com">>}
Procs == {"l1", "l2"}
BookIds == {"b1"}
GenreIds == {"g1"}
GenreNames == {"n1", "n2"}
Titles == {"t1", "t2"}

(* failure messages *)
Unauthenticated == "User has not Login"
InvalidToken == "Authorization Token is Invalid"
TokenExpired == "Token has Expired"
InvalidCredentials == "Invalid credentials. Please try again."
PasswordMismatch == "Password does not match"
IntegrityError == "UNIQUE constraint failed"
DoesNotExist == "CustomUser matching query does not exist."
ValueErrorEmail == "Email must be set"
NotAnAuthor == "User is not an author"
NoAuthorProfile == "CustomUser has no authoruser."
InvalidDate == "value has an invalid date format"
NotOwner == "User not the author of Book"
AuthorDoesNotExist == "AuthorUser matching query does not exist."
BookNotFound == "No Book matches the given query."
BookDoesNotExist == "Book matching query does not exist."
GenreDoesNotExist == "Genre matching query does not exist."
BookStatusDoesNotExist == "BookStatus matching query does not exist."
NoBookAttribute == "'AuthorUser' object has no attribute 'book'"
NoSuperMutate == "'super' object has no attribute 'mutate'"
NotAValidUUID == "is not a valid UUID."
\* a ValueError that no handler catches
UncaughtValueError == "ValueError"

---------------------------------------------------------------------------
(* Stored values *)

\* a null token column / an absent (or empty) Authorization header
Null == <<>>
NoHeader == <<>>

\* a well-formed token string that no make_token call of the model produces
Forged == <<0, 0, 0, TRUE>>

Pks == DOMAIN users

\* domain part of an e-mail address in lower case
Lower(d) == IF d = "X.com" THEN "x.com" ELSE d

\* BaseUserManager.normalize_email: lower-cases the domain part
normalize_email(email) == <<email[1], Lower(email[2])>>

\* the column value written by objects.create(password=password): the raw text
RawPassword(p) == <<p>>

\* make_password / set_password: algorithm, salt and the salted hash of p
make_password(p, salt) == <<"pbkdf2_sha256", salt, <<p, salt>>>>

\* AbstractBaseUser.check_password: the stored text must name a hasher and
\* the hash of the raw password under the stored salt must equal the stored one
check_password(stored, raw) ==
    /\ Len(stored) = 3
    /\ stored[1] = "pbkdf2_sha256"
    /\ stored = make_password(raw, stored[2])

\* PasswordResetTokenGenerator._num_seconds
num_seconds(now) == now \div TicksPerSecond

\* faulty variant: the hash value is made from the timestamp argument
make_hash_value_UsesTimestamp(pk, is_active, timestamp, now) ==
    <<pk, timestamp, is_active>>

\* ExpiringTokenGenerator._make_hash_value: the timestamp argument is
\* overwritten by the clock reading plus ten seconds
make_hash_value(pk, is_active, timestamp, now) ==
    LET ts == now + ExpirySeconds * TicksPerSecond
    IN  <<pk, ts, is_active>>

\* PasswordResetTokenGenerator._make_token_with_timestamp:
\* "<timestamp>-<hmac of the hash value>"
make_token_with_timestamp(pk, is_active, timestamp, now) ==
    LET hv == make_hash_value(pk, is_active, timestamp, now)
    IN  <<timestamp, hv[1], hv[2], hv[3]>>

\* PasswordResetTokenGenerator.make_token
make_token(pk, is_active, now) ==
    make_token_with_timestamp(pk, is_active, num_seconds(now), now)

\* A token string "<timestamp>-<hmac>" is the tuple of its timestamp and the
\* three components of the hash value behind its hmac.  A tuple of another
\* length stands for a string that does not split into two parts at "-",
\* and a negative first component for a first part that is no base-36
\* number.

\* faulty variant: the ValueError of split and of base36_to_int is not caught
check_token_result_Uncaught(pk, is_active, token, now) ==
    IF token = Null THEN "false"
    ELSE IF Len(token) # 4 THEN UncaughtValueError
    ELSE IF token[1] < 0 THEN UncaughtValueError
    ELSE IF make_token_with_timestamp(pk, is_active, token[1], now) # token
    THEN "false"
    ELSE IF num_seconds(now) - token[1] > PASSWORD_RESET_TIMEOUT THEN "false"
    ELSE "true"

\* PasswordResetTokenGenerator.check_token, statement by statement:
\* if not (user and token): return False; ts_b36, _ = token.split("-") and
\* ts = base36_to_int(ts_b36), each with except ValueError: return False;
\* the comparison with the token made for ts; the timeout test
check_token_result(pk, is_active, token, now) ==
    IF token = Null THEN "false"
    ELSE IF Len(token) # 4 THEN "false"
    ELSE IF token[1] < 0 THEN "false"
    ELSE IF make_token_with_timestamp(pk, is_active, token[1], now) # token
    THEN "false"
    ELSE IF num_seconds(now) - token[1] > PASSWORD_RESET_TIMEOUT THEN "false"
    ELSE "true"

\* faulty variant: the token is compared with one whose hash value is made
\* from its timestamp
check_token_DefaultHash(pk, is_active, token, now) ==
    /\ token # Null
    /\ Len(token) = 4
    /\ <<token[1], pk, token[1], is_active>> = token
    /\ ~ (num_seconds(now) - token[1] > PASSWORD_RESET_TIMEOUT)

\* PasswordResetTokenGenerator.check_token
check_token(pk, is_active, token, now) ==
    check_token_result(pk, is_active, token, now) = "true"

\* the header values a client may present
Headers ==
    {NoHeader, Forged} \cup
    { make_token(pk, TRUE, t) : pk \in 1..MaxUsers, t \in 0..MaxClock }

\* faulty variant: a new row is given a token
NewUser_WithToken(email, username, password) ==
    [ email |-> email, username |-> username, password |-> password,
      is_active |-> TRUE, is_admin |-> FALSE, is_patron |-> FALSE,
      is_author |-> FALSE, token |-> Forged ]

\* a new row of CustomUser with the model's field defaults
NewUser(email, username, password) ==
    [ email |-> email, username |-> username, password |-> password,
      is_active |-> TRUE, is_admin |-> FALSE, is_patron |-> FALSE,
      is_author |-> FALSE, token |-> Null ]

\* faulty variant: only the e-mail address is unique
UniqueViolation_EmailOnly(email, username) ==
    \E pk \in Pks : users[pk].email = email

\* the unique constraints on email and username of CustomUser
UniqueViolation(email, username) ==
    \E pk \in Pks : users[pk].email = email \/ users[pk].username = username

\* the tables of the books and genre applications, empty.  A Book row is
\* [bookid, title, author, genres] (author: the author profiles related to
\* the book, a profile being named by the pk of its user; genres: genreid
\* values), a Genre row is [genreid, name]; bookstatus: the BookStatus rows
NoRows == [ books |-> {}, genres |-> {}, bookstatus |-> {} ]

\* django.contrib.auth.login / logout on the request's session
login(sess, c, pk) == [sess EXCEPT ![c] = pk]
logout(sess, c) == [sess EXCEPT ![c] = 0]

---------------------------------------------------------------------------
(* Faulty variants of verify_header, used to show that the properties      *)
(* below depend on what verify_header does                                 *)

\* the token is cleared on the success path as well
verify_header_ClearsOnSuccess(c, header) ==
    IF header = NoHeader
    THEN [ outcome |-> Unauthenticated, user |-> 0,
           users |-> users, session |-> session ]
    ELSE IF ~ \E pk \in Pks : users[pk].token = header
    THEN [ outcome |-> InvalidToken, user |-> 0,
           users |-> users, session |-> session ]
    ELSE LET pk == CHOOSE k \in Pks : users[k].token = header
         IN  IF check_token(pk, users[pk].is_active, header, clock)
             THEN [ outcome |-> "ok", user |-> pk,
                    users |-> [users EXCEPT ![pk].token = Null],
                    session |-> session ]
             ELSE [ outcome |-> TokenExpired, user |-> pk,
                    users |-> [users EXCEPT ![pk].token = Null],
                    session |-> logout(session, c) ]

\* the test for a missing header is left out: the null header is looked up
verify_header_NoHeaderTest(c, header) ==
    IF ~ \E pk \in Pks : users[pk].token = header
    THEN [ outcome |-> InvalidToken, user |-> 0,
           users |-> users, session |-> session ]
    ELSE LET pk == CHOOSE k \in Pks : users[k].token = header
         IN  IF check_token(pk, users[pk].is_active, header, clock)
             THEN [ outcome |-> "ok", user |-> pk,
                    users |-> users, session |-> session ]
             ELSE [ outcome |-> TokenExpired, user |-> pk,
                    users |-> [users EXCEPT ![pk].token = Null],
                    session |-> logout(session, c) ]

\* DoesNotExist is swallowed and the function falls through to its last raise
verify_header_FallsThrough(c, header) ==
    IF header = NoHeader
    THEN [ outcome |-> Unauthenticated, user |-> 0,
           users |-> users, session |-> session ]
    ELSE IF ~ \E pk \in Pks : users[pk].token = header
    THEN [ outcome |-> Unauthenticated, user |-> 0,
           users |-> users, session |-> session ]
    ELSE LET pk == CHOOSE k \in Pks : users[k].token = header
         IN  IF check_token(pk, users[pk].is_active, header, clock)
             THEN [ outcome |-> "ok", user |-> pk,
                    users |-> users, session |-> session ]
             ELSE [ outcome |-> TokenExpired, user |-> pk,
                    users |-> [users EXCEPT ![pk].token = Null],
                    session |-> logout(session, c) ]

\* the expiry path does not call logout(request)
verify_header_KeepsSession(c, header) ==
    IF header = NoHeader
    THEN [ outcome |-> Unauthenticated, user |-> 0,
           users |-> users, session |-> session ]
    ELSE IF ~ \E pk \in Pks : users[pk].token = header
    THEN [ outcome |-> InvalidToken, user |-> 0,
           users |-> users, session |-> session ]
    ELSE LET pk == CHOOSE k \in Pks : users[k].token = header
         IN  IF check_token(pk, users[pk].is_active, header, clock)
             THEN [ outcome |-> "ok", user |-> pk,
                    users |-> users, session |-> session ]
             ELSE [ outcome |-> TokenExpired, user |-> pk,
                    users |-> [users EXCEPT ![pk].token = Null],
                    session |-> session ]

\* faulty variant: an unknown token ends the session too
verify_header_EndsSessionOnUnknown(c, header) ==
    IF header = NoHeader
    THEN [ outcome |-> Unauthenticated, user |-> 0,
           users |-> users, session |-> session ]
    ELSE IF ~ \E pk \in Pks : users[pk].token = header
    THEN [ outcome |-> InvalidToken, user |-> 0,
           users |-> users, session |-> logout(session, c) ]
    ELSE LET pk == CHOOSE k \in Pks : users[k].token = header
         IN  IF check_token(pk, users[pk].is_active, header, clock)
             THEN [ outcome |-> "ok", user |-> pk,
                    users |-> users, session |-> session ]
             ELSE [ outcome |-> TokenExpired, user |-> pk,
                    users |-> [users EXCEPT ![pk].token = Null],
                    session |-> logout(session, c) ]

\* the expiry path raises without saving the cleared token
verify_header_KeepsToken(c, header) ==
    IF header = NoHeader
    THEN [ outcome |-> Unauthenticated, user |-> 0,
           users |-> users, session |-> session ]
    ELSE IF ~ \E pk \in Pks : users[pk].token = header
    THEN [ outcome |-> InvalidToken, user |-> 0,
           users |-> users, session |-> session ]
    ELSE LET pk == CHOOSE k \in Pks : users[k].token = header
         IN  IF check_token(pk, users[pk].is_active, header, clock)
             THEN [ outcome |-> "ok", user |-> pk,
                    users |-> users, session |-> session ]
             ELSE [ outcome |-> TokenExpired, user |-> pk,
                    users |-> users,
                    session |-> logout(session, c) ]

---------------------------------------------------------------------------
(* verify_header: the outcome, the resolved identity (0: none) and the     *)
(* stored state it leaves behind                                           *)
verify_header(c, header) ==
    IF header = NoHeader
    THEN [ outcome |-> Unauthenticated, user |-> 0,
           users |-> users, session |-> session ]
    ELSE IF ~ \E pk \in Pks : users[pk].token = header
    THEN [ outcome |-> InvalidToken, user |-> 0,
           users |-> users, session |-> session ]
    ELSE LET pk == CHOOSE k \in Pks : users[k].token = header
         IN  IF check_token_result(pk, users[pk].is_active, header, clock)
                    = UncaughtValueError
             THEN \* no try around check_token: its exception ends the request
                  [ outcome |-> UncaughtValueError, user |-> pk,
                    users |-> users, session |-> session ]
             ELSE
             IF check_token(pk, users[pk].is_active, header, clock)
             THEN [ outcome |-> "ok", user |-> pk,
                    users |-> users, session |-> session ]
             ELSE [ outcome |-> TokenExpired, user |-> pk,
                    users |-> [users EXCEPT ![pk].token = Null],
                    session |-> logout(session, c) ]

\* the tokens for which verify_header has reported TokenExpired
Expire(vh, header) ==
    IF vh.outcome = TokenExpired THEN expired \cup {header} ELSE expired

\* the description of a request
Request(op, c, header, email, password, vh, error, ruser) ==
    [ op |-> op, client |-> c, header |-> header,
      email |-> email, password |-> password,
      vh |-> vh.outcome, vhUser |-> vh.user,
      pre |-> users, preSession |-> session, preExpired |-> expired,
      preLib |-> lib, prePatrons |-> patrons, preAuthors |-> authors,
      steps |-> IF vh.outcome = "none" THEN <<>> ELSE <<"verify_header">>,
      arg |-> <<>>,
      mid |-> vh.users, midSession |-> vh.session,
      error |-> error, user |-> ruser ]

\* a request that does not call verify_header
NoVerify == [ outcome |-> "none", user |-> 0, users |-> users, session |-> session ]

\* the Login requests in flight, none started: where each one is (at), the
\* CustomUser instance it holds (user) with its pk, whether that instance
\* had no token when it was read (absent), the clock reading at which its
\* token was made (made), the requests that saved, in the order of
\* their saves (saved), and the tokens that were the stored token of an
\* identity when a LogOut request that has ended presented them (out)
NoLogins ==
    [ at |-> [p \in Procs |-> "start"],
      user |-> [p \in Procs |-> NewUser(EmptyEmail, "", Null)],
      pk |-> [p \in Procs |-> 0],
      absent |-> [p \in Procs |-> FALSE],
      made |-> [p \in Procs |-> 0],
      saved |-> <<>>,
      out |-> {} ]

---------------------------------------------------------------------------
Init ==
    /\ inflight = NoLogins
    /\ users = <<>>
    /\ origin = <<>>
    /\ session = [c \in Clients |-> 0]
    /\ patrons = {}
    /\ authors = {}
    /\ lib = NoRows
    /\ clock = 0
    /\ expired = {}
    /\ req = Request("init", "c1", NoHeader, EmptyEmail, "", NoVerify, "", 0)

\* the wall clock advances between requests
Tick ==
    /\ clock < MaxClock
    /\ clock' = clock + 1
    /\ req' = Request("tick", "c1", NoHeader, EmptyEmail, "", NoVerify, "", 0)
    /\ UNCHANGED <<inflight, lib, users, origin, session, patrons, authors, expired>>

\* CustomUserManager.create_user (flags: the keyword arguments)
create_user(op, email, username, password, salt, flags) ==
    LET e == normalize_email(email)
        row == [ NewUser(e, username, make_password(password, salt))
                   EXCEPT !.is_admin = flags, !.is_author = flags,
                          !.is_patron = flags ]
        error == IF email = EmptyEmail THEN ValueErrorEmail
                 ELSE IF UniqueViolation(e, username) THEN IntegrityError
                 ELSE ""
    IN  /\ error = "" => Len(users) < MaxUsers
        /\ users' = IF error = "" THEN Append(users, row) ELSE users
        /\ origin' = IF error = "" THEN Append(origin, <<op, password>>)
                                   ELSE origin
        /\ req' = Request(op, "c1", NoHeader, email, password, NoVerify, error, 0)
        /\ UNCHANGED <<inflight, lib, session, patrons, authors, clock, expired>>

CreateUser ==
    \E email \in Emails \cup {EmptyEmail}, username \in Usernames,
       password \in NewPasswords, salt \in Salts :
        create_user("create_user", email, username, password, salt, FALSE)

\* CustomUserManager.create_superuser.  This action, BecomeAuthor and
\* AuthorBook belong to the role part of the system; the session
\* specification Spec does not take them.
CreateSuperuser ==
    \E email \in Emails, username \in Usernames,
       password \in Passwords, salt \in Salts :
        create_user("create_superuser", email, username, password, salt, TRUE)

\* faulty variant: the confirmation is not compared
signup_error_NoConfirmation(email, username, password, confirm_password) ==
    IF UniqueViolation(email, username) THEN IntegrityError ELSE ""

\* SignUpMutation.mutate: the failure that ends the request ("": none)
signup_error(email, username, password, confirm_password) ==
    IF password # confirm_password THEN PasswordMismatch
    ELSE IF UniqueViolation(email, username) THEN IntegrityError
    ELSE ""

\* SignUpMutation.mutate
SignUp ==
    \E c \in Clients, email \in Emails, username \in Usernames,
       password \in NewPasswords, confirm_password \in Passwords :
        LET error == signup_error(email, username, password, confirm_password)
            row == NewUser(email, username, RawPassword(password))
        IN  /\ error = "" => Len(users) < MaxUsers
            /\ users' = IF error = "" THEN Append(users, row) ELSE users
            /\ origin' = IF error = "" THEN Append(origin, <<"signup", password>>)
                                       ELSE origin
            /\ req' = [ Request("signup", c, NoHeader, email, password,
                                NoVerify, error, 0)
                         EXCEPT !.arg = <<confirm_password>> ]
            /\ UNCHANGED <<inflight, lib, session, patrons, authors, clock, expired>>

\* faulty variant: the token is the one of the first clock reading
LoginToken_Restores(pk, user) ==
    IF user.token = Null THEN make_token(pk, user.is_active, 0)
    ELSE user.token

\* faulty variant: a new token is made at every login
LoginToken_AlwaysNew(pk, user) == make_token(pk, user.is_active, clock)

\* the e-mail addresses a client presents to Login: the addresses in the
\* form create_user stores them
LoginEmails == { normalize_email(e) : e \in Emails }

\* the token LoginMutation.mutate saves on the identity: a new one only if
\* the identity holds none
LoginToken(pk, user) ==
    IF user.token = Null THEN make_token(pk, user.is_active, clock)
    ELSE user.token

\* the user field of the LoginMutation() object that mutate returns: the
\* object is built without arguments, so the field is null (0)
LoginResponseUser(pk) == 0

\* LoginMutation.mutate
Login ==
    \E c \in Clients, email \in LoginEmails, password \in Passwords :
        IF ~ \E pk \in Pks : users[pk].email = email
        THEN /\ req' = Request("login", c, NoHeader, email, password, NoVerify,
                               DoesNotExist, 0)
             /\ UNCHANGED <<inflight, lib, users, origin, session, patrons, authors, clock,
                            expired>>
        ELSE LET pk == CHOOSE k \in Pks : users[k].email = email
                 user == users[pk]
             IN  IF check_password(user.password, password)
                 THEN /\ users' = [users EXCEPT ![pk].token = LoginToken(pk, user)]
                      /\ session' = login(session, c, pk)
                      /\ req' = Request("login", c, NoHeader, email, password,
                                        NoVerify, "", LoginResponseUser(pk))
                      /\ UNCHANGED <<inflight, lib, origin, patrons, authors, clock, expired>>
                 ELSE /\ req' = Request("login", c, NoHeader, email, password,
                                        NoVerify, InvalidCredentials, 0)
                      /\ UNCHANGED <<inflight, lib, users, origin, session, patrons, authors,
                                     clock, expired>>

\* faulty variant: the row is not changed
ClearToken_Forgotten(us, pk) == us

\* LogOutMutation.mutate, after verify_header returned pk: the token is
\* set to null and the row saved
ClearToken(us, pk) == [us EXCEPT ![pk].token = Null]

\* LogOutMutation.mutate
LogOut ==
    \E c \in Clients, header \in Headers :
        LET vh == verify_header(c, header)
        IN  /\ users' = IF vh.outcome = "ok"
                        THEN ClearToken(vh.users, vh.user)
                        ELSE vh.users
            /\ session' = IF vh.outcome = "ok" THEN logout(vh.session, c)
                          ELSE vh.session
            /\ expired' = Expire(vh, header)
            /\ req' = Request("logout", c, header, EmptyEmail, "", vh,
                              IF vh.outcome = "ok" THEN "" ELSE vh.outcome, 0)
            /\ UNCHANGED <<inflight, lib, origin, patrons, authors, clock>>

\* user.is_patron = True; user.save()
GrantPatron(us, pk) == [us EXCEPT ![pk].is_patron = TRUE]

\* faulty variant: an author is an author only
GrantAuthor_Exclusive(us, pk) ==
    [us EXCEPT ![pk].is_author = TRUE, ![pk].is_patron = FALSE]

\* user.is_author = True; user.save()
GrantAuthor(us, pk) == [us EXCEPT ![pk].is_author = TRUE]

\* BecomePatronMutation.mutate
BecomePatron ==
    \E c \in Clients, header \in Headers :
        LET vh == verify_header(c, header)
            pk == vh.user
        IN  /\ users' = IF vh.outcome = "ok"
                        THEN GrantPatron(vh.users, pk)
                        ELSE vh.users
            /\ session' = vh.session
            /\ patrons' = IF vh.outcome = "ok" THEN patrons \cup {pk} ELSE patrons
            /\ expired' = Expire(vh, header)
            /\ req' = Request("becomepatron", c, header, EmptyEmail, "", vh,
                              IF vh.outcome # "ok" THEN vh.outcome
                              ELSE IF pk \in patrons THEN IntegrityError
                              ELSE "", 0)
            /\ UNCHANGED <<inflight, lib, origin, authors, clock>>

\* BecomeAuthorMutation.mutate (validDate: the birthdate parses as a date)
BecomeAuthor ==
    \E c \in Clients, header \in Headers, validDate \in BOOLEAN :
        LET vh == verify_header(c, header)
            pk == vh.user
        IN  /\ users' = IF vh.outcome = "ok"
                        THEN GrantAuthor(vh.users, pk)
                        ELSE vh.users
            /\ session' = vh.session
            /\ authors' = IF vh.outcome = "ok" /\ validDate
                          THEN authors \cup {pk} ELSE authors
            /\ expired' = Expire(vh, header)
            /\ req' = Request("becomeauthor", c, header, EmptyEmail, "", vh,
                              IF vh.outcome # "ok" THEN vh.outcome
                              ELSE IF ~ validDate THEN InvalidDate
                              ELSE IF pk \in authors THEN IntegrityError
                              ELSE "", 0)
            /\ UNCHANGED <<inflight, lib, origin, patrons, clock>>

\* AllBookQuery.resolve_author_book, for the request of client c that
\* presents header: the stored state and the request record it leaves
author_book(c, header) ==
    LET vh == verify_header(c, header)
        pk == vh.user
    IN  [ users |-> vh.users,
          session |-> vh.session,
          expired |-> Expire(vh, header),
          req |-> [ Request("author_book", c, header, EmptyEmail, "", vh,
                            IF vh.outcome # "ok" THEN vh.outcome
                            ELSE IF ~ vh.users[pk].is_author THEN NotAnAuthor
                            ELSE IF pk \notin authors THEN NoAuthorProfile
                            ELSE "", 0)
                     EXCEPT !.steps = IF vh.outcome # "ok"
                                      THEN <<"verify_header">>
                                      ELSE <<"verify_header", "role">> ] ]

\* AllBookQuery.resolve_author_book
AuthorBook ==
    \E c \in Clients, header \in Headers :
        LET r == author_book(c, header)
        IN  /\ users' = r.users
            /\ session' = r.session
            /\ expired' = r.expired
            /\ req' = r.req
            /\ UNCHANGED <<inflight, lib, origin, patrons, authors, clock>>

---------------------------------------------------------------------------
(* The books and genre applications.  A handler is an operator from the    *)
(* outcome of verify_header and the arguments to the steps it executed     *)
(* (verify_header, role: the is_author test, find: a lookup of the target, *)
(* profile: the lookup of the author profile, ownership: the test on the   *)
(* book's authors, write: a save or delete), the message of the failure    *)
(* that ended it ("" if none) and the tables it leaves behind.             *)

\* the header values presented to the books and genre applications: none,
\* or a token made for an identity at time 0 (one that no identity holds,
\* or holds no longer, is an unknown token)
LibHeaders ==
    {NoHeader} \cup { make_token(pk, TRUE, 0) : pk \in 1..MaxUsers }

HasBook(bookid) == \E b \in lib.books : b.bookid = bookid

HasGenre(genreid) == \E g \in lib.genres : g.genreid = genreid

\* Book.objects.get / get_object_or_404(Book, bookid=bookid)
GetBook(bookid) == CHOOSE b \in lib.books : b.bookid = bookid

\* Genre.objects.get(genreid=genreid)
GetGenre(genreid) == CHOOSE g \in lib.genres : g.genreid = genreid

\* the result of a handler
Result(steps, error, rows) == [ steps |-> steps, error |-> error, lib |-> rows ]

\* verify_header raised: the handler stops with its message
Refused(vh) == Result(<<"verify_header">>, vh.outcome, lib)

\* the effects and the response of a handler of the books or genre
\* application that is given the result vh of its identity resolution
Respond(op, c, header, arg, vh, r) ==
    /\ users' = vh.users
    /\ session' = vh.session
    /\ expired' = Expire(vh, header)
    /\ lib' = r.lib
    /\ req' = [ Request(op, c, header, EmptyEmail, "", vh, r.error, 0)
                  EXCEPT !.steps = r.steps, !.arg = arg ]
    /\ UNCHANGED <<inflight, origin, patrons, authors, clock>>

\* a Book row stored through the ORM (no handler of the API stores one)
AddBook ==
    \E bookid \in BookIds, author \in SUBSET authors,
       genres \in SUBSET { g.genreid : g \in lib.genres } :
        /\ author # {}
        /\ ~ HasBook(bookid)
        /\ lib' = [lib EXCEPT !.books = @ \cup
                      {[ bookid |-> bookid, title |-> "t1",
                         author |-> author, genres |-> genres ]}]
        /\ req' = [ Request("orm_add_book", "c1", NoHeader, EmptyEmail, "",
                            NoVerify, "", 0) EXCEPT !.arg = <<bookid>> ]
        /\ UNCHANGED <<inflight, users, origin, session, patrons, authors, clock, expired>>

\* CreateBookMutation.mutate: the author profile is looked up before the
\* role test; the relations of the unsaved book are set and the row is saved
\* without noofreviews, which the database refuses
create_book(vh) ==
    IF vh.outcome # "ok" THEN Refused(vh)
    ELSE IF vh.user \notin authors
    THEN Result(<<"verify_header", "profile">>, AuthorDoesNotExist, lib)
    ELSE IF ~ vh.users[vh.user].is_author
    THEN Result(<<"verify_header", "profile", "role">>, NotAnAuthor, lib)
    ELSE Result(<<"verify_header", "profile", "role", "write">>,
                IntegrityError, lib)

CreateBook ==
    \E c \in Clients, header \in LibHeaders :
        LET vh == verify_header(c, header)
        IN  Respond("create_book", c, header, <<>>, vh, create_book(vh))

\* EditBookMutation.mutate: the ownership test reads user.authoruser.book,
\* an attribute AuthorUser does not have
edit_book(vh, bookid, title) ==
    IF vh.outcome # "ok" THEN Refused(vh)
    ELSE IF ~ vh.users[vh.user].is_author
    THEN Result(<<"verify_header", "role">>, NotAnAuthor, lib)
    ELSE IF ~ HasBook(bookid)
    THEN Result(<<"verify_header", "role", "find">>, BookNotFound, lib)
    ELSE IF vh.user \notin authors
    THEN Result(<<"verify_header", "role", "find", "ownership">>,
                NoAuthorProfile, lib)
    ELSE Result(<<"verify_header", "role", "find", "ownership">>,
                NoBookAttribute, lib)

EditBook ==
    \E c \in Clients, header \in LibHeaders, bookid \in BookIds,
       title \in Titles :
        LET vh == verify_header(c, header)
        IN  Respond("edit_book", c, header, <<bookid, title>>, vh,
                    edit_book(vh, bookid, title))

\* faulty variant: the role test is left out
delete_book_NoRoleTest(vh, bookid) ==
    IF vh.outcome # "ok" THEN Refused(vh)
    ELSE IF ~ HasBook(bookid)
    THEN Result(<<"verify_header", "find">>, BookNotFound, lib)
    ELSE IF vh.user \notin authors
    THEN Result(<<"verify_header", "find", "ownership">>,
                NoAuthorProfile, lib)
    ELSE IF vh.user \in GetBook(bookid).author
    THEN Result(<<"verify_header", "find", "ownership">>, NotOwner, lib)
    ELSE Result(<<"verify_header", "find", "ownership", "write">>, "",
                [lib EXCEPT !.books = @ \ {GetBook(bookid)}])

\* DeleteBookMutation.mutate: the request is refused when the book IS among
\* the books of the user's author profile, and the book is deleted otherwise
delete_book(vh, bookid) ==
    IF vh.outcome # "ok" THEN Refused(vh)
    ELSE IF ~ HasBook(bookid)
    THEN Result(<<"verify_header", "find">>, BookNotFound, lib)
    ELSE IF ~ vh.users[vh.user].is_author
    THEN Result(<<"verify_header", "find", "role">>, NotAnAuthor, lib)
    ELSE IF vh.user \notin authors
    THEN Result(<<"verify_header", "find", "role", "ownership">>,
                NoAuthorProfile, lib)
    ELSE IF vh.user \in GetBook(bookid).author
    THEN Result(<<"verify_header", "find", "role", "ownership">>,
                NotOwner, lib)
    ELSE Result(<<"verify_header", "find", "role", "ownership", "write">>, "",
                [lib EXCEPT !.books = @ \ {GetBook(bookid)}])

DeleteBook ==
    \E c \in Clients, header \in LibHeaders, bookid \in BookIds :
        LET vh == verify_header(c, header)
        IN  Respond("delete_book", c, header, <<bookid>>, vh,
                    delete_book(vh, bookid))

\* the four mutations built on AddToBook: mutate is called with self = None,
\* so super().mutate(info) raises AttributeError before AddToBook.mutate,
\* and with it verify_header, is entered; the handler returns the error
add_to_book(bookid, related) == Result(<<>>, NoSuperMutate, lib)

\* AddAuthorToBookMutation.mutate
AddAuthorToBook ==
    \E c \in Clients, header \in LibHeaders, bookid \in BookIds,
       authorid \in Pks :
        Respond("add_author", c, header, <<bookid, authorid>>, NoVerify,
                add_to_book(bookid, authorid))

\* RemoveAuthorFromBookMutation.mutate
RemoveAuthorFromBook ==
    \E c \in Clients, header \in LibHeaders, bookid \in BookIds,
       authorid \in Pks :
        Respond("remove_author", c, header, <<bookid, authorid>>, NoVerify,
                add_to_book(bookid, authorid))

\* AddGenreToBookMutation.mutate
AddGenreToBook ==
    \E c \in Clients, header \in LibHeaders, bookid \in BookIds,
       genreid \in GenreIds :
        Respond("add_genre", c, header, <<bookid, genreid>>, NoVerify,
                add_to_book(bookid, genreid))

\* RemoveGenreFromBookMutation.mutate
RemoveGenreFromBook ==
    \E c \in Clients, header \in LibHeaders, bookid \in BookIds,
       genreid \in GenreIds :
        Respond("remove_genre", c, header, <<bookid, genreid>>, NoVerify,
                add_to_book(bookid, genreid))

\* faulty variant: the row is created whatever verify_header said
create_genre_Ungated(vh, genreid, name) ==
    Result(<<"verify_header", "write">>,
           IF vh.outcome # "ok" THEN vh.outcome ELSE "",
           [lib EXCEPT !.genres = @ \cup {[ genreid |-> genreid, name |-> name ]}])

\* CreateGenreMutation.mutate (genreid: the new uuid4 value)
create_genre(vh, genreid, name) ==
    IF vh.outcome # "ok" THEN Refused(vh)
    ELSE Result(<<"verify_header", "write">>, "",
                [lib EXCEPT !.genres = @ \cup
                    {[ genreid |-> genreid, name |-> name ]}])

CreateGenre ==
    \E c \in Clients, header \in LibHeaders, genreid \in GenreIds,
       name \in GenreNames :
        LET vh == verify_header(c, header)
        IN  /\ ~ HasGenre(genreid)
            /\ Respond("create_genre", c, header, <<genreid, name>>, vh,
                       create_genre(vh, genreid, name))

\* EditGenreMutation.mutate
edit_genre(vh, genreid, name) ==
    IF vh.outcome # "ok" THEN Refused(vh)
    ELSE IF ~ HasGenre(genreid)
    THEN Result(<<"verify_header", "find">>, GenreDoesNotExist, lib)
    ELSE Result(<<"verify_header", "find", "write">>, "",
                [lib EXCEPT !.genres = (@ \ {GetGenre(genreid)}) \cup
                    {[ genreid |-> genreid, name |-> name ]}])

EditGenre ==
    \E c \in Clients, header \in LibHeaders, genreid \in GenreIds,
       name \in GenreNames :
        LET vh == verify_header(c, header)
        IN  Respond("edit_genre", c, header, <<genreid, name>>, vh,
                    edit_genre(vh, genreid, name))

\* DeleteGenreMutation.mutate: the rows of the books' genres relation that
\* name the genre go with it
delete_genre(vh, genreid) ==
    IF vh.outcome # "ok" THEN Refused(vh)
    ELSE IF ~ HasGenre(genreid)
    THEN Result(<<"verify_header", "find">>, GenreDoesNotExist, lib)
    ELSE Result(<<"verify_header", "find", "write">>, "",
                [lib EXCEPT !.genres = @ \ {GetGenre(genreid)},
                            !.books = { [b EXCEPT !.genres = @ \ {genreid}] :
                                        b \in @ }])

DeleteGenre ==
    \E c \in Clients, header \in LibHeaders, genreid \in GenreIds :
        LET vh == verify_header(c, header)
        IN  Respond("delete_genre", c, header, <<genreid>>, vh,
                    delete_genre(vh, genreid))

\* AddBookToLibraryMutation.mutate: BookStatus.save looks the book up by a
\* Book instance instead of its bookid, which the UUID field refuses
add_to_library(vh, bookid) ==
    IF vh.outcome # "ok" THEN Refused(vh)
    ELSE IF ~ HasBook(bookid)
    THEN Result(<<"verify_header", "find">>, BookNotFound, lib)
    ELSE Result(<<"verify_header", "find", "write">>, NotAValidUUID, lib)

AddBookToLibrary ==
    \E c \in Clients, header \in LibHeaders, bookid \in BookIds :
        LET vh == verify_header(c, header)
        IN  Respond("add_to_library", c, header, <<bookid>>, vh,
                    add_to_library(vh, bookid))

\* RemoveBookFromLibraryMutation.mutate: the BookStatus rows of the user
\* and the book are deleted
remove_from_library(vh, bookid) ==
    IF vh.outcome # "ok" THEN Refused(vh)
    ELSE IF ~ HasBook(bookid)
    THEN Result(<<"verify_header", "find">>, BookNotFound, lib)
    ELSE Result(<<"verify_header", "find", "write">>, "",
                [lib EXCEPT !.bookstatus =
                    { r \in @ : ~ (r.bookid = bookid /\ r.customuser = vh.user) }])

RemoveBookFromLibrary ==
    \E c \in Clients, header \in LibHeaders, bookid \in BookIds :
        LET vh == verify_header(c, header)
        IN  Respond("remove_from_library", c, header, <<bookid>>, vh,
                    remove_from_library(vh, bookid))

\* AllBookQuery.resolve_display_library
display_library(vh) ==
    IF vh.outcome # "ok" THEN Refused(vh)
    ELSE Result(<<"verify_header">>, "", lib)

DisplayLibrary ==
    \E c \in Clients, header \in LibHeaders :
        LET vh == verify_header(c, header)
        IN  Respond("display_library", c, header, <<>>, vh, display_library(vh))

\* AllBookQuery.resolve_read_book and resolve_close_book up to the lookup of
\* the BookStatus row of the user and the book
reading_status(vh, bookid) ==
    IF vh.outcome # "ok" THEN Refused(vh)
    ELSE IF ~ HasBook(bookid)
    THEN Result(<<"verify_header", "find">>, BookDoesNotExist, lib)
    ELSE IF ~ \E r \in lib.bookstatus :
                 r.bookid = bookid /\ r.customuser = vh.user
    THEN Result(<<"verify_header", "find">>, BookStatusDoesNotExist, lib)
    ELSE Result(<<"verify_header", "find", "write">>, NotAValidUUID, lib)

\* AllBookQuery.resolve_read_book
ReadBook ==
    \E c \in Clients, header \in LibHeaders, bookid \in BookIds :
        LET vh == verify_header(c, header)
        IN  Respond("read_book", c, header, <<bookid>>, vh,
                    reading_status(vh, bookid))

\* AllBookQuery.resolve_close_book
CloseBook ==
    \E c \in Clients, header \in LibHeaders, bookid \in BookIds :
        LET vh == verify_header(c, header)
        IN  Respond("close_book", c, header, <<bookid>>, vh,
                    reading_status(vh, bookid))

---------------------------------------------------------------------------
Next ==
    \/ Tick
    \/ CreateUser
    \/ SignUp
    \/ Login
    \/ LogOut
    \/ BecomePatron

Spec == Init /\ [][Next]_vars

---------------------------------------------------------------------------
(* The books and genre applications in use.  Two identities were made by   *)
(* create_user; the second logged in, became an author and logged out; the *)
(* first has just logged in.                                               *)

\* the first identity's row before its login
Reader == NewUser(<<"a", "x.com">>, "u1", make_password("p1", "s1"))

\* the second identity's row
Writer == [ NewUser(<<"b", "x.com">>, "u2", make_password("p1", "s1"))
              EXCEPT !.is_author = TRUE ]

InitLib ==
    /\ inflight = NoLogins
    /\ users = << [Reader EXCEPT !.token = make_token(1, TRUE, 0)], Writer >>
    /\ origin = << <<"create_user", "p1">>, <<"create_user", "p1">> >>
    /\ session = [c \in Clients |-> 1]
    /\ patrons = {}
    /\ authors = {2}
    /\ lib = NoRows
    /\ clock = 0
    /\ expired = {}
    /\ req = [ op |-> "login", client |-> "c1", header |-> NoHeader,
               email |-> <<"a", "x.com">>, password |-> "p1",
               vh |-> "none", vhUser |-> 0,
               pre |-> <<Reader, Writer>>,
               preSession |-> [c \in Clients |-> 0], preExpired |-> {},
               preLib |-> NoRows, prePatrons |-> {}, preAuthors |-> {2},
               steps |-> <<>>, arg |-> <<>>,
               mid |-> <<Reader, Writer>>,
               midSession |-> [c \in Clients |-> 0],
               error |-> "", user |-> LoginResponseUser(1) ]

NextLib ==
    \/ Tick
    \/ LogOut
    \/ BecomePatron
    \/ BecomeAuthor
    \/ AuthorBook
    \/ AddBook
    \/ CreateBook
    \/ EditBook
    \/ DeleteBook
    \/ AddAuthorToBook
    \/ RemoveAuthorFromBook
    \/ AddGenreToBook
    \/ RemoveGenreFromBook
    \/ CreateGenre
    \/ EditGenre
    \/ DeleteGenre
    \/ AddBookToLibrary
    \/ RemoveBookFromLibrary
    \/ DisplayLibrary
    \/ ReadBook
    \/ CloseBook

SpecLib == InitLib /\ [][NextLib]_vars

---------------------------------------------------------------------------
(* check_token on every kind of token string.  The token column is a       *)
(* CharField that holds any text, so the stored token of the one identity  *)
(* is drawn from the well-formed and the malformed strings alike, and so   *)
(* is the header of a request.                                             *)

\* a string without the delimiter
NoDelimiter == <<7>>

\* a string with two delimiters
TwoDelimiters == <<0, 1, ExpirySeconds * TicksPerSecond, TRUE, 0>>

\* a string whose first part is no base-36 number and whose second part is
\* the hmac made for pk at the first clock reading
BadTimestamp(pk) == <<-1, pk, ExpirySeconds * TicksPerSecond, TRUE>>

Malformed == {NoDelimiter, TwoDelimiters, BadTimestamp(1)}

TokenStrings == Headers \cup Malformed

\* AllBookQuery.resolve_author_book with any string as its header
AuthorBookAny ==
    \E c \in Clients, header \in TokenStrings :
        LET r == author_book(c, header)
        IN  /\ users' = r.users
            /\ session' = r.session
            /\ expired' = r.expired
            /\ req' = r.req
            /\ UNCHANGED <<inflight, lib, origin, patrons, authors, clock>>

\* one identity made by create_user whose token column holds any string
InitToken ==
    /\ inflight = NoLogins
    /\ \E t \in {Null, make_token(1, TRUE, 0)} \cup Malformed :
           users = <<[Reader EXCEPT !.token = t]>>
    /\ origin = << <<"create_user", "p1">> >>
    /\ session = [c \in Clients |-> 0]
    /\ patrons = {}
    /\ authors = {}
    /\ lib = NoRows
    /\ clock = 0
    /\ expired = {}
    /\ req = [ op |-> "create_user", client |-> "c1", header |-> NoHeader,
               email |-> <<"a", "x.com">>, password |-> "p1",
               vh |-> "none", vhUser |-> 0,
               pre |-> <<>>,
               preSession |-> [c \in Clients |-> 0], preExpired |-> {},
               preLib |-> NoRows, prePatrons |-> {}, preAuthors |-> {},
               steps |-> <<>>, arg |-> <<>>,
               mid |-> <<>>,
               midSession |-> [c \in Clients |-> 0],
               error |-> "", user |-> 0 ]

NextToken ==
    \/ Tick
    \/ Login
    \/ AuthorBookAny

SpecToken == InitToken /\ [][NextToken]_vars

---------------------------------------------------------------------------
(* LoginMutation.mutate statement by statement, for Login requests that    *)
(* are served at the same time: each request reads the row into its own    *)
(* CustomUser instance, makes a token on the instance if it has none, and  *)
(* saves the instance.                                                     *)

\* faulty variant: a save does not replace a token that is stored
SaveRow_KeepsStoredToken(us, pk, row) ==
    [us EXCEPT ![pk] = [row EXCEPT !.token = IF us[pk].token # Null
                                             THEN us[pk].token
                                             ELSE row.token]]

\* Model.save: the row takes the values of all the fields of the instance
SaveRow(us, pk, row) == [us EXCEPT ![pk] = row]

\* CustomUser.objects.get(email=email) and user.check_password(password)
LoginGet ==
    \E p \in Procs, email \in LoginEmails, password \in Passwords :
        /\ inflight.at[p] = "start"
        /\ IF ~ \E pk \in Pks : users[pk].email = email
           THEN /\ inflight' = [inflight EXCEPT !.at[p] = "failed"]
                /\ req' = Request("login", "c1", NoHeader, email, password,
                                  NoVerify, DoesNotExist, 0)
           ELSE LET pk == CHOOSE k \in Pks : users[k].email = email
                IN  IF check_password(users[pk].password, password)
                    THEN /\ inflight' = [inflight EXCEPT
                                            !.at[p] = "got",
                                            !.user[p] = users[pk],
                                            !.pk[p] = pk,
                                            !.absent[p] = (users[pk].token = Null)]
                         /\ UNCHANGED req
                    ELSE /\ inflight' = [inflight EXCEPT !.at[p] = "failed"]
                         /\ req' = Request("login", "c1", NoHeader, email,
                                           password, NoVerify,
                                           InvalidCredentials, 0)
        /\ UNCHANGED <<users, origin, session, patrons, authors, lib, clock,
                       expired>>

\* if not(user.token): user.token = token_generator.make_token(user)
LoginMake ==
    \E p \in Procs :
        /\ inflight.at[p] = "got"
        /\ inflight' = [inflight EXCEPT
                           !.at[p] = "made",
                           !.user[p].token = LoginToken(inflight.pk[p],
                                                        inflight.user[p]),
                           !.made[p] = clock]
        /\ UNCHANGED <<users, origin, session, patrons, authors, lib, clock,
                       expired, req>>

\* user.save(); login(info.context, user); return LoginMutation()
LoginSave ==
    \E p \in Procs :
        LET pk == inflight.pk[p]
        IN  /\ inflight.at[p] = "made"
            /\ users' = SaveRow(users, pk, inflight.user[p])
            /\ session' = login(session, "c1", pk)
            /\ inflight' = [inflight EXCEPT !.at[p] = "done",
                                            !.saved = Append(@, p)]
            /\ req' = Request("login", "c1", NoHeader, users[pk].email,
                              origin[pk][2], NoVerify, "",
                              LoginResponseUser(pk))
            /\ UNCHANGED <<origin, patrons, authors, lib, clock, expired>>

\* one identity made by create_user, and no Login request started
InitRace ==
    /\ inflight = NoLogins
    /\ users = <<Reader>>
    /\ origin = << <<"create_user", "p1">> >>
    /\ session = [c \in Clients |-> 0]
    /\ patrons = {}
    /\ authors = {}
    /\ lib = NoRows
    /\ clock = 0
    /\ expired = {}
    /\ req = [ op |-> "create_user", client |-> "c1", header |-> NoHeader,
               email |-> <<"a", "x.com">>, password |-> "p1",
               vh |-> "none", vhUser |-> 0,
               pre |-> <<>>,
               preSession |-> [c \in Clients |-> 0], preExpired |-> {},
               preLib |-> NoRows, prePatrons |-> {}, preAuthors |-> {},
               steps |-> <<>>, arg |-> <<>>,
               mid |-> <<>>,
               midSession |-> [c \in Clients |-> 0],
               error |-> "", user |-> 0 ]

NextRace ==
    \/ Tick
    \/ LoginGet
    \/ LoginMake
    \/ LoginSave
    \/ AuthorBook

SpecRace == InitRace /\ [][NextRace]_vars

---------------------------------------------------------------------------
(* LogOutMutation and BecomePatronMutation statement by statement, for     *)
(* requests that are served at the same time: a request takes its          *)
(* CustomUser instance from verify_header and later saves it.              *)
(* inflight.at[p] is "start" for a free request slot and names the handler *)
(* that holds an instance otherwise.  BecomeAuthorMutation has the         *)
(* statements of BecomePatronMutation, with is_author for is_patron.       *)

\* faulty variant: the instance keeps its token
Cleared_Kept(row) == row

\* user.token = None, on the instance a request holds
Cleared(row) == [row EXCEPT !.token = Null]

\* the header values presented to these handlers: none, and the tokens
\* that Login makes for the one identity
StepHeaders == {NoHeader} \cup { make_token(1, TRUE, t) : t \in 0..MaxClock }

\* the slot a new request takes: a free one, and which one is immaterial
FreeSlot == CHOOSE p \in Procs : inflight.at[p] = "start"

\* the request of slot p has ended: its instance is dropped
Finish(p) ==
    [inflight EXCEPT !.at[p] = "start",
                     !.user[p] = NewUser(EmptyEmail, "", Null),
                     !.pk[p] = 0]

\* what verify_header returned to the request of slot p
Held(p) ==
    [ outcome |-> "ok", user |-> inflight.pk[p],
      users |-> users, session |-> session ]

\* user = verify_header(...), the first statement of handler op, for the
\* request of slot p: the stored state, the slots and the request record
\* it leaves; a request that verify_header refuses ends here
resolve(p, op, c, header) ==
    LET vh == verify_header(c, header)
    IN  [ users |-> vh.users,
          session |-> vh.session,
          expired |-> Expire(vh, header),
          inflight |-> IF vh.outcome = "ok"
                       THEN [inflight EXCEPT !.at[p] = op,
                                             !.user[p] = users[vh.user],
                                             !.pk[p] = vh.user]
                       ELSE IF op = "logout" /\ vh.outcome = TokenExpired
                       THEN [inflight EXCEPT !.out = @ \cup {header}]
                       ELSE inflight,
          req |-> IF vh.outcome = "ok" THEN req
                  ELSE Request(op, c, header, EmptyEmail, "", vh,
                               vh.outcome, 0) ]

\* LogOutMutation.mutate: user = verify_header(request)
LogOutResolve ==
    \E p \in Procs, c \in Clients, header \in StepHeaders :
        LET r == resolve(p, "logout", c, header)
        IN  /\ inflight.at[p] = "start"
            /\ p = FreeSlot
            /\ users' = r.users
            /\ session' = r.session
            /\ expired' = r.expired
            /\ inflight' = r.inflight
            /\ req' = r.req
            /\ UNCHANGED <<lib, origin, patrons, authors, clock>>

\* LogOutMutation.mutate: user.token = None; user.save(); logout(request)
LogOutSave ==
    \E p \in Procs :
        LET pk == inflight.pk[p]
            user == inflight.user[p]
        IN  /\ inflight.at[p] = "logout"
            /\ users' = SaveRow(users, pk, Cleared(user))
            /\ session' = logout(session, "c1")
            /\ inflight' = [Finish(p) EXCEPT !.out = @ \cup {user.token}]
            /\ req' = Request("logout", "c1", user.token, EmptyEmail, "",
                              Held(p), "", 0)
            /\ UNCHANGED <<lib, origin, patrons, authors, clock, expired>>

\* BecomePatronMutation.mutate: user = verify_header(info.context)
PatronResolve ==
    \E p \in Procs, c \in Clients, header \in StepHeaders :
        LET r == resolve(p, "becomepatron", c, header)
        IN  /\ inflight.at[p] = "start"
            /\ p = FreeSlot
            /\ users' = r.users
            /\ session' = r.session
            /\ expired' = r.expired
            /\ inflight' = r.inflight
            /\ req' = r.req
            /\ UNCHANGED <<lib, origin, patrons, authors, clock>>

\* BecomePatronMutation.mutate: user.is_patron = True; user.save();
\* new_patron.save()
PatronSave ==
    \E p \in Procs :
        LET pk == inflight.pk[p]
            user == inflight.user[p]
        IN  /\ inflight.at[p] = "becomepatron"
            /\ users' = SaveRow(users, pk, [user EXCEPT !.is_patron = TRUE])
            /\ patrons' = patrons \cup {pk}
            /\ inflight' = Finish(p)
            /\ req' = Request("becomepatron", "c1", user.token, EmptyEmail, "",
                              Held(p),
                              IF pk \in patrons THEN IntegrityError ELSE "", 0)
            /\ UNCHANGED <<lib, origin, session, authors, clock, expired>>

NextSteps ==
    \/ Tick
    \/ Login
    \/ LogOutResolve
    \/ LogOutSave
    \/ PatronResolve
    \/ PatronSave

\* one identity made by create_user, no token stored, no request started
SpecSteps == InitRace /\ [][NextSteps]_vars

---------------------------------------------------------------------------
(* Properties of verify_header.  A request that called verify_header has   *)
(* req.vh # "none"; the clock does not move during a request.              *)

Called == req.vh # "none"

\* the identities of the state before the request that hold the presented token
Holders == { pk \in DOMAIN req.pre :
               req.header # NoHeader /\ req.pre[pk].token = req.header }

\* check_token on the stored state before the request
Accepts(pk) == check_token(pk, req.pre[pk].is_active, req.header, clock)

\* every identity has the token it had before the request
TokensKept == \A pk \in DOMAIN req.pre : users[pk].token = req.pre[pk].token

\* C1: when the presented token is the stored token of an identity and
\* check_token accepts it, verify_header returns exactly that identity and
\* leaves the identities' rows and the sessions as they were.
C1_SuccessPath ==
    \A pk \in Holders :
        (Called /\ Accepts(pk)) =>
            /\ req.vh = "ok"
            /\ req.vhUser = pk
            /\ req.mid = req.pre
            /\ req.midSession = req.preSession

C1_Witness ==
    /\ req.op = "becomepatron"
    /\ req.vh = "ok"
    /\ req.pre[req.vhUser].token = req.header
    /\ Len(req.pre) = 2

\* C2: a request without an authorization value fails with "User has not
\* Login"; no identity is resolved and no row (in particular no token)
\* changes.
C2_NoHeader ==
    (Called /\ req.header = NoHeader) =>
        /\ req.vh = Unauthenticated
        /\ req.error = Unauthenticated
        /\ req.vhUser = 0
        /\ req.mid = req.pre
        /\ users = req.pre

C2_Witness ==
    /\ Called
    /\ req.header = NoHeader
    /\ req.error = Unauthenticated
    /\ \E pk \in Pks : users[pk].token = Null
    /\ \E pk \in Pks : users[pk].token # Null

\* C3: a presented token that is no identity's stored token fails with
\* "Authorization Token is Invalid" and every identity keeps its token.
C3_UnknownToken ==
    (Called /\ req.header # NoHeader /\ Holders = {}) =>
        /\ req.vh = InvalidToken
        /\ req.error = InvalidToken
        /\ req.mid = req.pre
        /\ TokensKept

C3_Witness ==
    /\ Called
    /\ req.vh = InvalidToken
    /\ req.header # Forged
    /\ Len(users) = 2
    /\ \A pk \in Pks : users[pk].token = Null

\* C4: when the presented token is an identity's stored token and
\* check_token rejects it, the request fails with "Token has Expired", and
\* in the state in which the failure is reported the identity's token is
\* null and the request's session is ended.
C4_ExpiryPath ==
    \A pk \in Holders :
        (Called /\ ~ Accepts(pk)) =>
            /\ req.vh = TokenExpired
            /\ req.error = TokenExpired
            /\ req.vhUser = pk
            /\ req.mid[pk].token = Null
            /\ req.midSession[req.client] = 0
            /\ users[pk].token = Null
            /\ session[req.client] = 0

C4_Witness ==
    /\ req.vh = TokenExpired
    /\ req.pre[req.vhUser].token = req.header
    /\ req.preSession[req.client] # 0
    /\ session[req.client] = 0

\* C5: once verify_header has failed with "Token has Expired" for a token,
\* every later verify_header call that presents this token fails with
\* "Authorization Token is Invalid", whatever happened in between.
C5_ExpiredStaysInvalid ==
    (Called /\ req.header \in req.preExpired) =>
        /\ req.vh = InvalidToken
        /\ req.error = InvalidToken

\* the expired token is presented after its identity has logged in again
C5_Witness ==
    /\ Called
    /\ req.header \in req.preExpired
    /\ req.vh = InvalidToken
    /\ \E pk \in Pks : pk = req.header[2] /\ users[pk].token # Null

---------------------------------------------------------------------------
(* Properties of the account mutations *)

\* the identity a Login request names, in the state before the request
Named == { pk \in DOMAIN req.pre : req.pre[pk].email = req.email }

\* the identities created by SignUpMutation with the password of the request
SignedUp == { pk \in Named : origin[pk] = <<"signup", req.password>> }

\* C6: the end-to-end scenario, step by step for an identity A created by
\* SignUp: Login with A's e-mail and password succeeds and stores a token on
\* A; a restricted action presenting A's stored token succeeds; LogOut
\* presenting it succeeds and clears A's token; a restricted action
\* presenting a token that A no longer holds fails with InvalidToken.
C6_EndToEnd ==
    /\ \A pk \in SignedUp :
          req.op = "login" => (req.error = "" /\ users[pk].token # Null)
    /\ \A pk \in Holders :
          (origin[pk][1] = "signup" /\ req.op = "becomepatron")
              => req.error = ""
    /\ \A pk \in Holders :
          (origin[pk][1] = "signup" /\ req.op = "logout")
              => (req.error = "" /\ users[pk].token = Null)
    /\ (req.op = "becomepatron" /\ req.header # NoHeader /\ Holders = {})
          => req.error = InvalidToken

\* C7: an identity created by SignUp with password p has a salted hash as
\* its stored password, a Login with its e-mail and p succeeds, and a Login
\* with its e-mail and another password does not.
C7_SignUpThenLogin ==
    \A pk \in Named :
        (origin[pk][1] = "signup" /\ req.op = "login") =>
            /\ \E salt \in Salts :
                  req.pre[pk].password = make_password(origin[pk][2], salt)
            /\ req.error = "" <=> origin[pk][2] = req.password

\* C8: after a successful Login (registered e-mail, correct password) the
\* identity's token is not null: it is the token the identity had before the
\* Login if it had one, and otherwise the token make_token produces.
C8_LoginToken ==
    \A pk \in Named :
        (req.op = "login" /\ check_password(req.pre[pk].password, req.password))
        =>  /\ req.error = ""
            /\ users[pk].token # Null
            /\ req.pre[pk].token # Null => users[pk].token = req.pre[pk].token
            /\ req.pre[pk].token = Null =>
                  users[pk].token = make_token(pk, req.pre[pk].is_active, clock)

\* a Login of an identity that holds a token made at an earlier clock reading
C8_Witness ==
    /\ req.op = "login"
    /\ req.error = ""
    /\ \E pk \in Named :
          /\ req.pre[pk].token # Null
          /\ req.pre[pk].token # make_token(pk, req.pre[pk].is_active, clock)
          /\ users[pk].token = req.pre[pk].token

\* C9: a successful Login returns the logged-in user in the user field of
\* the response.
C9_LoginReturnsUser ==
    \A pk \in Named :
        (req.op = "login" /\ req.error = "") => req.user = pk

\* C10: after a LogOut request that passed verify_header the resolved
\* identity's token is null and the request's session is ended; a LogOut
\* request that failed with Unauthenticated or InvalidToken changed no token.
C10_LogOut ==
    /\ (req.op = "logout" /\ req.vh = "ok") =>
          /\ req.error = ""
          /\ users[req.vhUser].token = Null
          /\ session[req.client] = 0
    /\ (req.op = "logout" /\ req.vh \in {Unauthenticated, InvalidToken}) =>
          TokensKept

C10_Witness ==
    /\ req.op = "logout"
    /\ req.vh = "ok"
    /\ req.pre[req.vhUser].token = req.header
    /\ req.preSession[req.client] = req.vhUser
    /\ users[req.vhUser].token = Null
    /\ session[req.client] = 0

---------------------------------------------------------------------------
(* Invariants of the identity table *)

\* the token an identity had before the last request (null for a new row)
TokenBefore(pk) ==
    IF pk \in DOMAIN req.pre THEN req.pre[pk].token ELSE Null

\* the last request was a successful Login of identity pk
LoggedIn(pk) ==
    req.op = "login" /\ req.error = "" /\ users[pk].email = req.email

\* C11: every identity has one token slot, which is null when the identity
\* is created, turns non-null only by a successful Login of that identity,
\* and is null after a LogOut of the identity and after an expiry detected
\* for it; hence it is null for an identity that never logged in and for
\* one that has not logged in since its last logout or detected expiry.
C11_TokenSlot ==
    \A pk \in Pks :
        /\ (TokenBefore(pk) = Null /\ users[pk].token # Null) => LoggedIn(pk)
        /\ (req.op = "logout" /\ req.vh = "ok" /\ req.vhUser = pk)
              => users[pk].token = Null
        /\ (req.vh = TokenExpired /\ req.vhUser = pk)
              => users[pk].token = Null
        /\ users[pk].token # Null
              => users[pk].token \in Headers \ {NoHeader, Forged}

\* one identity has just lost its token by a detected expiry while another
\* one, which holds a token, is untouched
C11_Witness ==
    /\ req.vh = TokenExpired
    /\ users[req.vhUser].token = Null
    /\ \E pk \in Pks : pk # req.vhUser /\ users[pk].token # Null

\* C12: no two identities have the same e-mail address, the same username
\* or the same non-null token; a SignUp with a registered e-mail address
\* fails, and a failed SignUp leaves the identities as they were.
C12_Unique ==
    /\ \A p \in Pks : \A q \in Pks \ {p} :
          /\ users[p].email # users[q].email
          /\ users[p].username # users[q].username
          /\ users[p].token # Null => users[p].token # users[q].token
    /\ (req.op = "signup" /\ Named # {}) => req.error # ""
    /\ (req.op = "signup" /\ req.error # "") => users = req.pre

\* a SignUp with a free e-mail address and a taken username is refused
C12_Witness ==
    /\ req.op = "signup"
    /\ req.error = IntegrityError
    /\ Named = {}
    /\ users = req.pre
    /\ Len(users) = 1

---------------------------------------------------------------------------
(* Properties of the restricted operations, under SpecLib *)

\* the operations that resolve the identity of the request
RestrictedOps ==
    { "logout", "becomepatron", "becomeauthor", "author_book",
      "create_book", "edit_book", "delete_book",
      "add_author", "remove_author", "add_genre", "remove_genre",
      "create_genre", "edit_genre", "delete_genre",
      "add_to_library", "remove_from_library",
      "display_library", "read_book", "close_book" }

\* the operations reserved to authors
AuthorOnlyOps ==
    { "create_book", "edit_book", "delete_book", "add_author",
      "remove_author", "add_genre", "remove_genre", "author_book" }

\* the outcomes of a failed identity resolution
Failures == {Unauthenticated, InvalidToken, TokenExpired}

\* the role flags of the identities
Flags(us) ==
    [ pk \in DOMAIN us |-> <<us[pk].is_author, us[pk].is_patron, us[pk].is_admin>> ]

\* books, genres, relations and reading-status rows, profiles and role
\* flags: now, and before the last request
Records == <<lib, patrons, authors, Flags(users)>>

RecordsBefore == <<req.preLib, req.prePatrons, req.preAuthors, Flags(req.pre)>>

\* the position of a step among the steps of the last request (0: not run)
Pos(x) ==
    IF \E i \in DOMAIN req.steps : req.steps[i] = x
    THEN CHOOSE i \in DOMAIN req.steps : req.steps[i] = x
    ELSE 0

\* the identity whose valid token the last request presented
Asker == { pk \in Holders : Accepts(pk) }

\* the book the last request names, as it was before the request
Target == { b \in req.preLib.books : b.bookid = req.arg[1] }

\* C13: a restricted operation writes only after verify_header, run as its
\* first step, has returned an identity; if verify_header raises, no book,
\* genre, relation, role flag, profile or reading-status record is created,
\* changed or deleted.
C13_MandatoryGate ==
    req.op \in RestrictedOps =>
        /\ (Records # RecordsBefore \/ Pos("write") > 0)
              => (req.vh = "ok" /\ Pos("verify_header") = 1)
        /\ req.vh \in Failures => Records = RecordsBefore

\* a genre exists and a request to delete it is refused for its expired token
C13_Witness ==
    /\ req.op = "delete_genre"
    /\ req.vh = TokenExpired
    /\ req.preLib.genres # {}
    /\ lib = req.preLib

\* C14 as stated: after a restricted operation whose identity resolution
\* failed, the whole stored state equals the stored state before it.
C14_FailedResolutionFrame ==
    (req.op \in RestrictedOps /\ req.vh \in Failures) =>
        /\ users = req.pre
        /\ session = req.preSession
        /\ Records = RecordsBefore

\* C14, amended: after a restricted operation whose identity resolution
\* failed, books, genres, relations, role flags, profiles and reading-status
\* records are as before; identities and sessions are as before too, except
\* that after TokenExpired the resolved identity's token is null and the
\* session of the request is ended.
C14_FailedResolutionEffects ==
    (req.op \in RestrictedOps /\ req.vh \in Failures) =>
        /\ Records = RecordsBefore
        /\ IF req.vh = TokenExpired
           THEN /\ users = [req.pre EXCEPT ![req.vhUser].token = Null]
                /\ session = logout(req.preSession, req.client)
           ELSE /\ users = req.pre
                /\ session = req.preSession

\* an unknown token is refused to a client that has a session, which it keeps
C14_Witness ==
    /\ req.op \in RestrictedOps
    /\ req.vh = InvalidToken
    /\ req.preSession[req.client] # 0
    /\ session = req.preSession

\* C15 as stated: an authenticated identity without is_author that attempts
\* an author-only action fails with "User is not an author", and no book or
\* book relation is created, changed or deleted.
C15_RoleGuard ==
    (req.op \in AuthorOnlyOps /\ \E pk \in Asker : ~ req.pre[pk].is_author) =>
        /\ req.error = NotAnAuthor
        /\ lib.books = req.preLib.books

\* C16 as stated: an authenticated author whose profile is not among the
\* authors of the target book fails with "User not the author of Book" on
\* edit book and delete book, and the book is neither modified nor deleted.
C16_OwnershipGuard ==
    ( /\ req.op \in {"edit_book", "delete_book"}
      /\ \E pk \in Asker : /\ req.pre[pk].is_author
                           /\ pk \in req.preAuthors
                           /\ \E b \in Target : pk \notin b.author ) =>
        /\ req.error = NotOwner
        /\ lib.books = req.preLib.books

\* C17 as stated: an authenticated author whose profile is among the authors
\* of the target book passes the guard: its edit-book request updates the
\* book and its delete-book request removes the book.
C17_OwnersAuthorized ==
    ( /\ req.op \in {"edit_book", "delete_book"}
      /\ \E pk \in Asker : /\ req.pre[pk].is_author
                           /\ pk \in req.preAuthors
                           /\ \E b \in Target : pk \in b.author ) =>
        /\ req.error = ""
        /\ req.op = "delete_book"
              => ~ \E b \in lib.books : b.bookid = req.arg[1]
        /\ req.op = "edit_book"
              => \E b \in lib.books : /\ b.bookid = req.arg[1]
                                      /\ b.title = req.arg[2]

\* the related ids of the target book that the last request is about
Related(b) == IF req.op \in {"add_author", "remove_author"}
              THEN b.author ELSE b.genres

\* C18 as stated: for an authorized author of a book, removing an author or
\* genre that is not in the book's relation set, and adding one that is in
\* it, completes without error and leaves the set unchanged.
C18_Idempotent ==
    ( /\ req.op \in {"add_author", "remove_author", "add_genre", "remove_genre"}
      /\ \E pk \in Asker : /\ req.pre[pk].is_author
                           /\ pk \in req.preAuthors
                           /\ \E b \in Target :
                                /\ pk \in b.author
                                /\ req.op \in {"add_author", "add_genre"}
                                      <=> req.arg[2] \in Related(b) ) =>
        /\ req.error = ""
        /\ lib.books = req.preLib.books

---------------------------------------------------------------------------
(* Concurrent logins, under SpecRace *)

\* both Login requests read the identity without a token and have saved
Raced ==
    \A p \in Procs : inflight.at[p] = "done" /\ inflight.absent[p]

\* the tokens written first and last
FirstToken == inflight.user[inflight.saved[1]].token

LastToken == inflight.user[inflight.saved[Len(inflight.saved)]].token

\* C20 as stated: when two Login requests for one identity both read the
\* token as absent before either saves, both save, the stored token after
\* both is the one written last, and the token written first is no longer
\* accepted by verify_header.
C20_LastWriterWins ==
    Raced =>
        /\ Len(inflight.saved) = 2
        /\ req.op = "login"
              => /\ \A pk \in Pks : users[pk].token = LastToken
                 /\ verify_header("c1", FirstToken).outcome # "ok"
        /\ (req.op = "author_book" /\ req.header = FirstToken)
              => req.vh # "ok"

\* C20, amended: both save, each with the token it made, and the stored
\* token after both is the one written last; tokens made at different clock
\* readings differ, and when the token written first differs from the one
\* written last verify_header refuses it as unknown.
C20_LastWriterWinsDistinct ==
    Raced =>
        /\ Len(inflight.saved) = 2
        /\ \A p \in Procs :
              inflight.user[p].token
                  = make_token(inflight.pk[p], TRUE, inflight.made[p])
        /\ inflight.made[inflight.saved[1]] # inflight.made[inflight.saved[2]]
              => FirstToken # LastToken
        /\ req.op = "login"
              => /\ \A pk \in Pks : users[pk].token = LastToken
                 /\ FirstToken # LastToken
                       => verify_header("c1", FirstToken).outcome = InvalidToken
        /\ (req.op = "author_book" /\ req.header = FirstToken
                                   /\ FirstToken # LastToken)
              => req.vh = InvalidToken

\* after the race the token written first, which differs from the stored
\* one, is presented and refused
C20_Witness ==
    /\ Raced
    /\ FirstToken # LastToken
    /\ req.op = "author_book"
    /\ req.header = FirstToken
    /\ req.vh = InvalidToken
    /\ \E pk \in Pks : users[pk].token = LastToken

---------------------------------------------------------------------------
(* Failures of SignUp and Login, under Spec *)

\* C26: a SignUp whose password differs from confirm_password fails with
\* "Password does not match" and the registered identities are unchanged.
C26_PasswordMismatch ==
    (req.op = "signup" /\ req.password # req.arg[1]) =>
        /\ req.error = PasswordMismatch
        /\ users = req.pre
        /\ origin = [pk \in DOMAIN req.pre |-> origin[pk]]

\* a SignUp with a free e-mail address and username and a confirmation that
\* differs from the password
C26_Witness ==
    /\ req.op = "signup"
    /\ req.password # req.arg[1]
    /\ req.error = PasswordMismatch
    /\ \A pk \in Pks : users[pk].email # req.email
    /\ Len(users) < MaxUsers

\* the stored password of identity pk matches the password of the request
RightPassword(pk) == check_password(req.pre[pk].password, req.password)

\* C27 as stated: a Login with an e-mail address of no registered identity,
\* or with a wrong password for a registered identity, fails with "Invalid
\* credentials. Please try again.", establishes no session and leaves every
\* stored token unchanged.
C27_InvalidCredentials ==
    (req.op = "login" /\ (Named = {} \/ \E pk \in Named : ~ RightPassword(pk)))
        => /\ req.error = InvalidCredentials
           /\ session = req.preSession
           /\ TokensKept

---------------------------------------------------------------------------
(* Properties of the token generator, under Spec *)

\* the clock readings
Readings == 0..MaxClock

\* C21: check_token recomputes the hash value from the identity's pk, the
\* clock reading of the check plus ten seconds and the is_active flag,
\* whatever timestamp the token carries, and accepts the token only if the
\* result is the token's; so a token is accepted at the reading at which it
\* was made and rejected at every other reading, in particular at readings
\* less than ten seconds later, and verify_header reports such a stored
\* token as expired.
C21_HashAtCheckTime ==
    /\ \A pk \in 1..MaxUsers, now \in Readings, ts \in Readings :
          make_hash_value(pk, TRUE, ts, now)
              = <<pk, now + ExpirySeconds * TicksPerSecond, TRUE>>
    /\ \A pk \in 1..MaxUsers, t \in Readings, now \in Readings :
          check_token(pk, TRUE, make_token(pk, TRUE, t), now) <=> t = now
    /\ \A pk \in Holders : \A t \in Readings :
          (Called /\ req.header = make_token(pk, req.pre[pk].is_active, t))
              => IF t = clock THEN req.vh = "ok" ELSE req.vh = TokenExpired

\* a stored token is reported as expired less than ten seconds after it
\* was made
C21_Witness ==
    /\ Called
    /\ req.vh = TokenExpired
    /\ \E pk \in Holders : \E t \in Readings :
          /\ req.header = make_token(pk, req.pre[pk].is_active, t)
          /\ t < clock
          /\ clock - t < ExpirySeconds * TicksPerSecond

\* C22: once the result of make_token for an identity is its stored token,
\* verify_header presented with that token at the same clock reading
\* succeeds and returns that identity.
C22_RoundTrip ==
    \A pk \in DOMAIN req.pre :
        ( /\ Called
          /\ req.pre[pk].token = make_token(pk, req.pre[pk].is_active, clock)
          /\ req.header = req.pre[pk].token )
        => (req.vh = "ok" /\ req.vhUser = pk)

\* the token made by a Login is presented to LogOut at the same clock reading
C22_Witness ==
    /\ req.op = "logout"
    /\ req.vh = "ok"
    /\ req.header = make_token(req.vhUser, TRUE, clock)
    /\ req.pre[req.vhUser].token = req.header
    /\ origin[req.vhUser][1] = "create_user"

\* the tokens of identity pk that verify_header had reported as expired
\* before the last request (a token names its identity)
ExpiredOf(pk) == { tok \in req.preExpired : tok[2] = pk }

\* C23: a successful Login of an identity for which a token has been
\* reported as expired leaves the identity with a token that is none of
\* its expired ones; a Login that finds no stored token makes a new one.
C23_NewTokenAfterExpiry ==
    \A pk \in Named :
        (req.op = "login" /\ req.error = "" /\ ExpiredOf(pk) # {})
        => /\ users[pk].token # Null
           /\ users[pk].token \notin req.preExpired
           /\ req.pre[pk].token = Null
                 => users[pk].token = make_token(pk, req.pre[pk].is_active, clock)

\* the first Login after the expiry of the identity's token
C23_Witness ==
    /\ req.op = "login"
    /\ req.error = ""
    /\ \E pk \in Named :
          /\ ExpiredOf(pk) # {}
          /\ req.pre[pk].token = Null
          /\ users[pk].token \notin req.preExpired \cup {Null}

---------------------------------------------------------------------------
(* Role flags and profiles, under SpecLib *)

\* the row of identity pk but for the fields named in the set
Except(row, fields) ==
    [ f \in {"is_author", "is_patron", "is_admin", "token"} \ fields |-> row[f] ]

\* C24: a successful BecomePatron leaves the identity with is_patron and
\* with the is_author, is_admin and token it had; a successful BecomeAuthor
\* leaves it with is_author and with the is_patron, is_admin and token it
\* had; an identity that has completed both has both flags.
C24_IndependentRoles ==
    LET pk == req.vhUser
    IN  /\ (req.op = "becomepatron" /\ req.error = "")
              => /\ users[pk].is_patron
                 /\ Except(users[pk], {"is_patron"})
                        = Except(req.pre[pk], {"is_patron"})
        /\ (req.op = "becomeauthor" /\ req.error = "")
              => /\ users[pk].is_author
                 /\ Except(users[pk], {"is_author"})
                        = Except(req.pre[pk], {"is_author"})
        /\ ( /\ req.error = ""
             /\ \/ req.op = "becomepatron" /\ req.pre[pk].is_author
                \/ req.op = "becomeauthor" /\ req.pre[pk].is_patron )
              => (users[pk].is_patron /\ users[pk].is_author)

\* a patron has just become an author as well
C24_Witness ==
    /\ req.op = "becomeauthor"
    /\ req.error = ""
    /\ req.pre[req.vhUser].is_patron
    /\ ~ req.pre[req.vhUser].is_author
    /\ users[req.vhUser].is_patron
    /\ users[req.vhUser].is_author
    /\ users[req.vhUser].token = req.header

\* C28 as stated: an identity with is_author has an author profile and an
\* identity with is_patron has a patron profile; a BecomeAuthor or
\* BecomePatron request whose profile cannot be saved leaves the flag as
\* it was.
C28_FlagImpliesProfile ==
    /\ \A pk \in Pks : /\ users[pk].is_author => pk \in authors
                       /\ users[pk].is_patron => pk \in patrons
    /\ (req.op = "becomeauthor" /\ req.error \in {InvalidDate, IntegrityError})
          => users[req.vhUser].is_author = req.pre[req.vhUser].is_author
    /\ (req.op = "becomepatron" /\ req.error = IntegrityError)
          => users[req.vhUser].is_patron = req.pre[req.vhUser].is_patron

---------------------------------------------------------------------------
\* C25: check_token returns true or false for every identity and every
\* token string, and a request that presents a malformed token that is
\* the stored token of an identity ends in "Token has Expired" with that
\* token cleared, not in an uncaught error.
C25_NeverRaises ==
    /\ \A pk \in Pks, t \in TokenStrings, now \in 0..MaxClock :
           check_token_result(pk, users[pk].is_active, t, now)
               \in {"true", "false"}
    /\ req.vh # UncaughtValueError
    /\ \A pk \in DOMAIN req.pre :
           ( /\ Called
             /\ req.header \in Malformed
             /\ req.pre[pk].token = req.header )
              => /\ req.vh = TokenExpired
                 /\ req.error = TokenExpired
                 /\ req.mid[pk].token = Null

\* a request presented the stored token whose timestamp does not parse
C25_Witness ==
    /\ Called
    /\ req.header = BadTimestamp(1)
    /\ req.pre[1].token = req.header
    /\ req.vh = TokenExpired
    /\ users[1].token = Null

---------------------------------------------------------------------------
\* C29: a stored token that is null becomes non-null only by a successful
\* Login, whatever the interleaving of the requests; a BecomePatron or
\* BecomeAuthor request that took its identity before the token was cleared
\* does not write the old token back when it saves.
C29_NoResurrection ==
    \A pk \in DOMAIN req.pre :
        (req.pre[pk].token = Null /\ users[pk].token # Null)
            => (req.op = "login" /\ req.error = "")

---------------------------------------------------------------------------
\* a LogOut request that presented a stored token has ended, by success or
\* by "Token has Expired", and the token of its identity is null
LogOutLeavesNull ==
    (req.op = "logout" /\ req.error \in {"", TokenExpired})
        => users[req.vhUser].token = Null

\* verify_header returns an identity to the request of slot p in this step
Resolves(p) == inflight.at[p] = "start" /\ inflight'.at[p] # "start"

\* C30 as stated: a LogOut request that presents the stored token of an
\* identity leaves that token null, on success and on "Token has Expired",
\* and from then on verify_header never accepts the presented token.
C30_NeverAcceptedAgain ==
    [][ /\ LogOutLeavesNull'
        /\ \A p \in Procs :
               Resolves(p) => inflight'.user[p].token \notin inflight.out
      ]_vars

\* C30, amended: a LogOut request that presents the stored token of an
\* identity leaves that token null, on success and on "Token has Expired";
\* verify_header accepts the presented token afterwards only when it is
\* stored again, and only at the clock reading at which Login makes that
\* same token.
C30_AcceptedAgainOnlyIfRemade ==
    [][ /\ LogOutLeavesNull'
        /\ \A p \in Procs :
               (Resolves(p) /\ inflight'.user[p].token \in inflight.out)
                  => LET pk == inflight'.pk[p]
                         token == inflight'.user[p].token
                     IN  /\ users[pk].token = token
                         /\ token = make_token(pk, users[pk].is_active, clock)
      ]_vars

\* a LogOut request presented the stored token and succeeded
C30_Witness ==
    /\ req.op = "logout"
    /\ req.error = ""
    /\ req.header \in inflight.out
    /\ req.header = make_token(req.vhUser, TRUE, clock)
    /\ users[req.vhUser].token = Null

====
